---- MODULE Spec2Model ----
(***************************************************************************)
(* GifColorReplacer: a model of src/main.py.                               *)
(*                                                                         *)
(* Strings are sequences of one-character strings, so that the string      *)
(* operations of the script (lstrip, split, splitext, replace, endswith,   *)
(* join, ...) are computed as the script computes them.  Paths follow      *)
(* posixpath.  A pixel is <<R, G, B, A>> with 8-bit channels, a frame is a  *)
(* sequence of rows of pixels, an animation is a sequence of frames with   *)
(* their own durations.  Colours handed to the recolouring have channels   *)
(* in 0..255.                                                              *)
(***************************************************************************)
EXTENDS Integers, Sequences, FiniteSets, TLC

VARIABLES
    args,               \* argparse namespace: input, output, output_dir,
                        \* old_color, new_color, tolerance, duration, force
    files,              \* file system: absolute path -> animation stored there
    dirs,               \* file system: set of existing directories (absolute)
    pc,                 \* position of the script
    idx,                \* index of the current input in args.input
    old_color,          \* parsed --old-color (tuple of integers)
    new_color,          \* parsed --new-color
    output_gif,         \* output path chosen for the current input
    call,               \* arguments of the running replace_color_with_tolerance
    img,                \* animation opened by Image.open(input_path)
    fpos,               \* number of frames the loop has consumed
    frames,             \* list of recoloured frames built so far
    log,                \* side effects so far: directories made, files written
    exit_code,          \* process exit status, -1 while running
    hex_in,             \* argument of a direct hex_to_rgb call
    hex_out             \* its outcome (not ok before the call)

vars == <<args, files, dirs, pc, idx, old_color, new_color, output_gif, call,
          img, fpos, frames, log, exit_code, hex_in, hex_out>>

\* ------------------------------------------------------------------ bounds

MaxHexLen == 7          \* longest string handed to hex_to_rgb
MaxChan == 2            \* channel values of the pixels and colours: 0..MaxChan
MaxTol == 1             \* tolerances 0..MaxTol
MaxFrames == 2          \* longest source animation
MaxInputs == 2          \* most paths given to --input

\* ----------------------------------------------------------------- strings

\* s[i:] with a 1-based first index.
From(s, i) == SubSeq(s, i, Len(s))

\* s[:n], the first n characters.
Upto(s, n) == SubSeq(s, 1, n)

StartsWith(s, p) == Len(s) >= Len(p) /\ Upto(s, Len(p)) = p

EndsWith(s, p) == Len(s) >= Len(p) /\ From(s, Len(s) - Len(p) + 1) = p

\* c in s, for a single character c.
HasChar(s, c) == \E i \in 1..Len(s) : s[i] = c

\* s.rfind(c) as a 1-based index, 0 when c does not occur.
RFind(s, c) ==
    IF HasChar(s, c) THEN CHOOSE i \in 1..Len(s) :
                               s[i] = c /\ \A j \in (i+1)..Len(s) : s[j] # c
                     ELSE 0

RECURSIVE LStrip(_, _)
\* s.lstrip(c): every leading c is removed.
LStrip(s, c) == IF s # <<>> /\ Head(s) = c THEN LStrip(Tail(s), c) ELSE s

RECURSIVE RStrip(_, _)
RStrip(s, c) ==
    IF s # <<>> /\ s[Len(s)] = c THEN RStrip(Upto(s, Len(s) - 1), c) ELSE s

RECURSIVE Repeat(_, _)
\* s * n
Repeat(s, n) == IF n = 0 THEN <<>> ELSE s \o Repeat(s, n - 1)

RECURSIVE Replace(_, _, _)
\* s.replace(old, new) for a non-empty old: every non-overlapping occurrence,
\* left to right.
Replace(s, old, new) ==
    IF Len(s) < Len(old) THEN s
    ELSE IF StartsWith(s, old)
         THEN new \o Replace(From(s, Len(old) + 1), old, new)
         ELSE <<Head(s)>> \o Replace(Tail(s), old, new)

UpperChars == <<"A", "B", "C", "D", "E", "F", "G", "I">>
LowerChars == <<"a", "b", "c", "d", "e", "f", "g", "i">>

LowerChar(c) ==
    IF \E i \in 1..Len(UpperChars) : UpperChars[i] = c
    THEN LowerChars[CHOOSE i \in 1..Len(UpperChars) : UpperChars[i] = c]
    ELSE c

\* s.lower()
Lower(s) == [i \in 1..Len(s) |-> LowerChar(s[i])]

DecDigits == <<"0", "1", "2", "3", "4", "5", "6", "7", "8", "9">>
HexDigits == DecDigits \o <<"a", "b", "c", "d", "e", "f">>

IsDecDigit(c) == \E i \in 1..Len(DecDigits) : DecDigits[i] = c
IsHexDigit(c) == \E i \in 1..Len(HexDigits) : HexDigits[i] = LowerChar(c)

DigitVal(c) == (CHOOSE i \in 1..Len(HexDigits) : HexDigits[i] = LowerChar(c)) - 1

RECURSIVE IntToStr(_)
\* str(n) for n >= 0
IntToStr(n) ==
    IF n < 10 THEN <<DecDigits[n + 1]>>
    ELSE IntToStr(n \div 10) \o <<DecDigits[(n % 10) + 1]>>

\* ------------------------------------------------------------- hex_to_rgb

\* Outcome of a call that may raise ValueError: the value it returns, or the
\* exception.
Ok(v) == [ok |-> TRUE, val |-> v]
ValueError == [ok |-> FALSE, val |-> <<>>]

RECURSIVE DigitsValue(_, _, _)
\* The value of a string of digits in the given base, read left to right
\* from the accumulator acc.
DigitsValue(s, base, acc) ==
    IF s = <<>> THEN acc
    ELSE DigitsValue(Tail(s), base, acc * base + DigitVal(Head(s)))

\* int(s, 16) of the two-character slices hex_to_rgb takes: every character
\* must be a hexadecimal digit (the alphabet of the runs has no sign, no
\* underscore and no whitespace other than the space, which int also reads).
IntBase16(s) ==
    IF s # <<>> /\ \A i \in 1..Len(s) : IsHexDigit(s[i])
    THEN Ok(DigitsValue(s, 16, 0))
    ELSE ValueError

\* hex_color * k of lines 22-27: how often a string of length n is repeated.
HexRepeat(n) == IF n = 1 THEN 6 ELSE IF n = 2 THEN 3 ELSE IF n = 3 THEN 2 ELSE 1

\* hex_to_rgb as its docstring describes it: six characters or an error.
hex_to_rgb_six_only(hex_color) ==
    LET stripped == LStrip(hex_color, "#")
        chans    == [k \in 1..3 |-> IntBase16(SubSeq(stripped, 2 * k - 1, 2 * k))]
    IN  IF Len(stripped) # 6 THEN ValueError
        ELSE IF \E k \in 1..3 : ~chans[k].ok THEN ValueError
        ELSE Ok([k \in 1..3 |-> chans[k].val])

hex_to_rgb(hex_color) ==
    LET stripped == LStrip(hex_color, "#")
        n        == Len(stripped)
        six      == Repeat(stripped, HexRepeat(n))
        chans    == [k \in 1..3 |-> IntBase16(SubSeq(six, 2 * k - 1, 2 * k))]
    IN  IF n \notin {1, 2, 3, 6} THEN ValueError
        ELSE IF \E k \in 1..3 : ~chans[k].ok THEN ValueError
        ELSE Ok([k \in 1..3 |-> chans[k].val])

\* ------------------------------------------------------- decimal colours

\* Python's str.split() separates on runs of whitespace; the space is the
\* only whitespace character of the model's alphabet.
IsSpace(c) == c = " "

RECURSIVE Split(_)
\* s.split(): the maximal runs of non-whitespace characters, in order.
Split(s) ==
    IF s = <<>> THEN <<>>
    ELSE IF IsSpace(Head(s)) THEN Split(Tail(s))
    ELSE LET stop == IF \E i \in 1..Len(s) : IsSpace(s[i])
                     THEN (CHOOSE i \in 1..Len(s) :
                              IsSpace(s[i]) /\ \A j \in 1..(i-1) : ~IsSpace(s[j])) - 1
                     ELSE Len(s)
         IN  <<Upto(s, stop)>> \o Split(From(s, stop + 1))

\* int(token): an optional sign and then decimal digits.
IntBase10(tok) ==
    LET signed == tok # <<>> /\ Head(tok) \in {"+", "-"}
        digits == IF signed THEN Tail(tok) ELSE tok
    IN  IF digits # <<>> /\ \A i \in 1..Len(digits) : IsDecDigit(digits[i])
        THEN Ok(IF signed /\ Head(tok) = "-" THEN 0 - DigitsValue(digits, 10, 0)
                ELSE DigitsValue(digits, 10, 0))
        ELSE ValueError

\* tuple(map(int, s.split())): one integer per token, however many tokens
\* there are; ValueError as soon as a token is no integer.
DecimalTuple(s) ==
    LET toks == Split(s)
        ints == [k \in 1..Len(toks) |-> IntBase10(toks[k])]
    IN  IF \E k \in 1..Len(toks) : ~ints[k].ok THEN ValueError
        ELSE Ok([k \in 1..Len(toks) |-> ints[k].val])

\* Lines 197-200 (and 202-205): a colour argument with a space in it is read
\* as decimal integers, any other as HEX.
ParseColor(s) == IF HasChar(s, " ") THEN DecimalTuple(s) ELSE hex_to_rgb(s)

\* ------------------------------------------------------------------- paths

\* os.path.isabs
IsAbs(p) == StartsWith(p, <<"/">>)

\* os.path.join(a, b)
Join(a, b) ==
    IF IsAbs(b) THEN b
    ELSE IF a = <<>> \/ EndsWith(a, <<"/">>) THEN a \o b
    ELSE a \o <<"/">> \o b

\* os.path.basename
Basename(p) == From(p, RFind(p, "/") + 1)

\* os.path.dirname
Dirname(p) ==
    LET head == Upto(p, RFind(p, "/"))
    IN  IF head # <<>> /\ \E i \in 1..Len(head) : head[i] # "/"
        THEN RStrip(head, "/")
        ELSE head

\* os.path.splitext: the extension starts at the last dot of the last
\* component, unless only dots precede it there.
SplitExt(p) ==
    LET sep == RFind(p, "/")
        dot == RFind(p, ".")
    IN  IF dot > sep /\ \E i \in (sep + 1)..(dot - 1) : p[i] # "."
        THEN [base |-> Upto(p, dot - 1), ext |-> From(p, dot)]
        ELSE [base |-> p, ext |-> <<>>]

\* os.getcwd()
Cwd == <<"/", "w">>

\* The absolute path a path names.
Abs(p) == Join(Cwd, p)

\* os.path.exists on the file system (fs, ds)
Exists(fs, ds, p) == p # <<>> /\ (Abs(p) \in DOMAIN fs \/ Abs(p) \in ds)

\* os.path.isfile
IsFile(fs, p) == p # <<>> /\ Abs(p) \in DOMAIN fs

\* The directories os.makedirs(d) leaves in existence: d and its ancestors.
MakeDirs(ds, d) ==
    LET a == Abs(d)
    IN  ds \cup {a} \cup {Upto(a, i - 1) : i \in {k \in 2..Len(a) : a[k] = "/"}}

\* The file system with animation anim stored at path p.
WriteFile(fs, p, anim) ==
    [q \in DOMAIN fs \cup {Abs(p)} |-> IF q = Abs(p) THEN anim ELSE fs[q]]

Gif == <<".", "g", "i", "f">>
ProcessedGif == <<"_", "p", "r", "o", "c", "e", "s", "s", "e", "d">> \o Gif

\* ---------------------------------------------------- get_unique_filename

\* The probing without its loop: the first candidate, there or not.
ProbeOnce(fs, ds, base, ext, counter) ==
    base \o <<"_">> \o IntToStr(counter) \o ext

RECURSIVE Probe(_, _, _, _, _)
\* Lines 126-130: the first base_counter ext, counting up from counter, that
\* does not exist.
Probe(fs, ds, base, ext, counter) ==
    LET cand == base \o <<"_">> \o IntToStr(counter) \o ext
    IN  IF Exists(fs, ds, cand) THEN Probe(fs, ds, base, ext, counter + 1)
        ELSE cand

\* First value of the counter (line 126).
FirstCounter == 1

get_unique_filename(fs, ds, base_path) ==
    LET sp   == SplitExt(base_path)
        ext  == IF sp.ext = <<>> THEN Gif ELSE sp.ext
        path == IF sp.ext = <<>> THEN base_path \o Gif ELSE base_path
    IN  IF ~Exists(fs, ds, path) THEN path
        ELSE Probe(fs, ds, sp.base, ext, FirstCounter)

\* ------------------------------------------- replace_color_with_tolerance

\* Full opacity, the alpha written at line 82.
Opaque == 255

\* Number of values of a uint8 channel (np.array of an RGBA frame).
Depth == 256

AbsVal(x) == IF x < 0 THEN 0 - x ELSE x

\* The difference of two channels in uint8 arithmetic, modulo Depth.
ChannelDiffWrapped(v, t) == (v - t) % Depth

\* array[:, :, :3] - np.array(target_color) for one channel: the uint8 array
\* is promoted to the integer type of the target array, so the difference
\* is the signed one.
ChannelDiff(v, t) == v - t

\* NumPy broadcasts a tuple of n values against the k trailing channels when
\* n = k or n = 1.
Broadcasts(n, k) == n = k \/ n = 1

\* Element c of a tuple broadcast over the channels.
Bcast(t, c) == IF Len(t) = 1 THEN t[1] ELSE t[c]

\* np.any in the place of np.all: one channel within the tolerance.
MaskAny(px, target, tolerance) ==
    \E c \in 1..3 : AbsVal(ChannelDiff(px[c], Bcast(target, c))) <= tolerance

\* Lines 72-74, for one pixel: np.all(np.abs(diff) <= tolerance, axis=-1).
Mask(px, target, tolerance) ==
    \A c \in 1..3 : AbsVal(ChannelDiff(px[c], Bcast(target, c))) <= tolerance

\* Lines 80-83: the value assigned to the masked pixels.
Fill(replacement_color) == replacement_color \o <<Opaque>>

\* The alpha channel as a copy taken at line 77, before the assignment.
AlphaCopied(before, after) == before[4]

\* Line 77 takes array[:, :, 3] as a view of the array, and line 86 reads it
\* after the assignment of line 80: the alpha it holds is the one of the
\* array as it is then (after), not as it was (before).
alpha_channel(before, after) == after[4]

\* Lines 72-86 for one pixel.
ReplacePixel(px, target, replacement, tolerance) ==
    LET value    == Fill(replacement)
        assigned == IF Mask(px, target, tolerance)
                    THEN [c \in 1..4 |-> Bcast(value, c)]
                    ELSE px
    IN  <<assigned[1], assigned[2], assigned[3], alpha_channel(px, assigned)>>

\* Lines 68-89 for one frame (a sequence of rows of pixels).
ReplaceFrame(rows, target, replacement, tolerance) ==
    [r \in 1..Len(rows) |->
        [c \in 1..Len(rows[r]) |->
            ReplacePixel(rows[r][c], target, replacement, tolerance)]]

\* Whether the array operations of lines 72-83 raise ValueError (shapes that
\* do not broadcast).
ShapeError(target, replacement) ==
    ~Broadcasts(Len(target), 3) \/ ~Broadcasts(Len(Fill(replacement)), 4)

\* frames.insert(0, ...) in the place of frames.append(...).
Prepended(fs, f) == <<f>> \o fs

\* Line 89: frames.append(...)
AppendFrame(fs, f) == Append(fs, f)

\* Lines 92-93: the path the animation is saved at.
SavePath(output_path) ==
    IF EndsWith(Lower(output_path), Gif) THEN output_path ELSE output_path \o Gif

\* Lines 97-103: the animation written: every frame with the one duration.
Encoded(fs, duration) ==
    [loop |-> 0, frames |-> [i \in 1..Len(fs) |-> [rows |-> fs[i], dur |-> duration]]]

NoCall == [input_path |-> <<>>, output_path |-> <<>>, target_color |-> <<>>,
           replacement_color |-> <<>>, tolerance |-> 0, duration |-> 0]

\* Lines 51-62: the output directory is made, the input is opened.
Open ==
    /\ pc = "call"
    /\ LET output_dir == Dirname(call.output_path)
           make == output_dir # <<>> /\ ~Exists(files, dirs, output_dir)
       IN  /\ dirs' = IF make THEN MakeDirs(dirs, output_dir) ELSE dirs
           /\ log' = IF make THEN Append(log, [op |-> "mkdir", path |-> Abs(output_dir),
                                               existed |-> FALSE])
                     ELSE log
    /\ img' = files[Abs(call.input_path)].frames
    /\ fpos' = 0
    /\ frames' = <<>>
    /\ pc' = "frames"
    /\ UNCHANGED <<args, files, idx, old_color, new_color, output_gif, call,
                   exit_code, hex_in, hex_out>>

\* Lines 63-89: one turn of the loop over the frames.  A ValueError of the
\* array operations is not caught: the process ends with a traceback and
\* status 1.
ProcessFrame ==
    /\ pc = "frames"
    /\ fpos < Len(img)
    /\ IF ShapeError(call.target_color, call.replacement_color)
       THEN /\ pc' = "crashed"
            /\ exit_code' = 1
            /\ UNCHANGED <<fpos, frames>>
       ELSE /\ frames' = AppendFrame(frames,
                             ReplaceFrame(img[fpos + 1].rows, call.target_color,
                                          call.replacement_color, call.tolerance))
            /\ fpos' = fpos + 1
            /\ UNCHANGED <<pc, exit_code>>
    /\ UNCHANGED <<args, files, dirs, idx, old_color, new_color, output_gif, call,
                   img, log, hex_in, hex_out>>

\* Lines 91-104: the frames are saved, the call returns.
Save ==
    /\ pc = "frames"
    /\ fpos = Len(img)
    /\ LET path == SavePath(call.output_path)
       IN  /\ files' = WriteFile(files, path, Encoded(frames, call.duration))
           /\ log' = Append(log, [op |-> "write", path |-> Abs(path),
                                  existed |-> Exists(files, dirs, path)])
    /\ pc' = "returned"
    /\ UNCHANGED <<args, dirs, idx, old_color, new_color, output_gif, call, img,
                   fpos, frames, exit_code, hex_in, hex_out>>

\* ---------------------------------------------------------- direct calls

NoArgs == [input |-> <<>>, output |-> <<>>, output_dir |-> <<>>,
           old_color |-> <<>>, new_color |-> <<>>, tolerance |-> 0,
           duration |-> 0, force |-> FALSE]

\* hex_to_rgb called on hex_in.
HexCall ==
    /\ pc = "hex"
    /\ hex_out' = hex_to_rgb(hex_in)
    /\ pc' = "hexdone"
    /\ UNCHANGED <<args, files, dirs, idx, old_color, new_color, output_gif, call,
                   img, fpos, frames, log, exit_code, hex_in>>

HexAlphabet == {"#", "A", "a", "3"}

\* Every string over HexAlphabet of length 0..MaxHexLen.
HexStrings == UNION {[1..n -> HexAlphabet] : n \in 0..MaxHexLen}

InitHex ==
    /\ hex_in \in HexStrings
    /\ hex_out = [ok |-> FALSE, val |-> <<>>]
    /\ pc = "hex"
    /\ args = NoArgs /\ files = <<>> /\ dirs = {} /\ idx = 0
    /\ old_color = <<>> /\ new_color = <<>> /\ output_gif = <<>>
    /\ call = NoCall /\ img = <<>> /\ fpos = 0 /\ frames = <<>>
    /\ log = <<>> /\ exit_code = -1

NextHex == HexCall

SpecHex == InitHex /\ [][NextHex]_vars

\* Channel values, colours and pixels of the recolouring runs.  The alpha
\* values are full opacity and one partial transparency.
ChanVals == (0..MaxChan) \cup {Depth - 1}
Colors == {<<r, g, b>> : r \in 0..MaxChan, g \in 0..MaxChan, b \in 0..MaxChan}
AlphaVals == {77, Opaque}
Pixels == {<<r, g, b, a>> : r \in ChanVals, g \in ChanVals, b \in ChanVals,
                            a \in AlphaVals}
Tolerances == 0..MaxTol
Durations == {20, 100}

InGif == <<"a">> \o Gif
OutGif == <<"o">> \o Gif

\* The state at a call replace_color_with_tolerance(InGif, OutGif, target,
\* replacement, tolerance, duration) with InGif holding animation anim.
AtCall(anim, target, replacement, tolerance, duration) ==
    /\ files = [q \in {Abs(InGif)} |-> [loop |-> 0, frames |-> anim]]
    /\ dirs = {<<"/">>, Cwd}
    /\ call = [input_path |-> InGif, output_path |-> OutGif,
               target_color |-> target, replacement_color |-> replacement,
               tolerance |-> tolerance, duration |-> duration]
    /\ pc = "call"
    /\ args = NoArgs /\ idx = 0 /\ old_color = target /\ new_color = replacement
    /\ output_gif = OutGif /\ img = <<>> /\ fpos = 0 /\ frames = <<>>
    /\ log = <<>> /\ exit_code = -1
    /\ hex_in = <<>> /\ hex_out = [ok |-> FALSE, val |-> <<>>]

\* One frame of one pixel, every pixel against every target.
InitPixel ==
    \E px \in Pixels, target \in Colors, tolerance \in Tolerances :
        \E replacement \in {target, <<MaxChan, 0, Depth - 1>>} :
            AtCall(<<[rows |-> <<<<px>>>>, dur |-> 40]>>, target, replacement,
                   tolerance, 100)

\* Animations of 1..MaxFrames frames of one size, with their own timings.
Palette == {<<0, 0, 0, 77>>, <<Depth - 1, 0, 0, 77>>}
Shapes == {<<1, 1>>, <<1, 2>>, <<2, 1>>}
FramesOf(shape) == [1..shape[1] -> [1..shape[2] -> Palette]]
Animations ==
    UNION {[1..n -> [rows : FramesOf(shape), dur : {40, 70}]] :
              n \in 1..MaxFrames, shape \in Shapes}

InitFrames ==
    \E anim \in Animations, duration \in Durations, tolerance \in Tolerances :
        AtCall(anim, <<0, 0, 0>>, <<MaxChan, 0, Depth - 1>>, tolerance, duration)

InitRecolor == InitPixel \/ InitFrames

NextRecolor == Open \/ ProcessFrame \/ Save

SpecRecolor == InitRecolor /\ [][NextRecolor]_vars

\* ------------------------------------------------------------ the script

\* exit(1) of lines 193, 208, 222.
Exit1 == pc' = "exited" /\ exit_code' = 1

\* The loop of lines 190-193 without its test.
CheckInputUnchecked ==
    /\ pc = "check"
    /\ IF idx < Len(args.input)
       THEN idx' = idx + 1 /\ UNCHANGED <<pc, exit_code>>
       ELSE pc' = "colors" /\ UNCHANGED <<idx, exit_code>>
    /\ UNCHANGED <<args, files, dirs, old_color, new_color, output_gif, call, img,
                   fpos, frames, log, hex_in, hex_out>>

\* Lines 189-193: the input at idx is checked to be a file.
CheckInput ==
    /\ pc = "check"
    /\ IF ~IsFile(files, args.input[idx])
       THEN Exit1 /\ UNCHANGED idx
       ELSE IF idx < Len(args.input)
            THEN idx' = idx + 1 /\ UNCHANGED <<pc, exit_code>>
            ELSE pc' = "colors" /\ UNCHANGED <<idx, exit_code>>
    /\ UNCHANGED <<args, files, dirs, old_color, new_color, output_gif, call, img,
                   fpos, frames, log, hex_in, hex_out>>

\* Lines 195-208: both colours are parsed; a ValueError ends the run.
ParseColors ==
    /\ pc = "colors"
    /\ LET old == ParseColor(args.old_color)
           new == ParseColor(args.new_color)
       IN  IF old.ok /\ new.ok
           THEN /\ old_color' = old.val
                /\ new_color' = new.val
                /\ pc' = "choose"
                /\ idx' = 1
                /\ UNCHANGED exit_code
           ELSE Exit1 /\ UNCHANGED <<old_color, new_color, idx>>
    /\ UNCHANGED <<args, files, dirs, output_gif, call, img, fpos, frames, log,
                   hex_in, hex_out>>

\* The recurring lines 234-237, 245-246, 250-251, 254-255: a path that exists
\* is replaced by a unique one unless --force is given.
Unique(p) ==
    IF Exists(files, dirs, p) /\ ~args.force
    THEN get_unique_filename(files, dirs, p)
    ELSE p

\* Line 218: the test that rejects an --output with a path in it.
HasPath(output) == IsAbs(output) \/ HasChar(output, "\\") \/ HasChar(output, "/")

\* Lines 213-251: is the run rejected for its --output, and if not, the
\* output path of input_file before the last test of line 254.
Rejected == args.output # <<>> /\ args.output_dir = <<>> /\ HasPath(args.output)

Branch(input_file) ==
    IF args.output # <<>>
    THEN IF args.output_dir = <<>>
         THEN IF Exists(files, dirs, args.output) /\ ~args.force
              THEN get_unique_filename(files, dirs, args.output)
              ELSE Join(Cwd, args.output)
         ELSE Unique(Join(args.output_dir, args.output))
    ELSE IF args.output_dir # <<>>
         THEN Unique(Join(args.output_dir,
                          Replace(Basename(input_file), Gif, ProcessedGif)))
         ELSE Unique(SplitExt(input_file).base \o ProcessedGif)

\* Lines 211-258: the output path of the input at idx is chosen and
\* replace_color_with_tolerance is called with it.
ChooseOutput ==
    /\ pc = "choose"
    /\ IF Rejected
       THEN Exit1 /\ UNCHANGED <<output_gif, call>>
       ELSE /\ output_gif' = Unique(Branch(args.input[idx]))
            /\ call' = [input_path |-> args.input[idx], output_path |-> output_gif',
                        target_color |-> old_color, replacement_color |-> new_color,
                        tolerance |-> args.tolerance, duration |-> args.duration]
            /\ pc' = "call"
            /\ UNCHANGED exit_code
    /\ UNCHANGED <<args, files, dirs, idx, old_color, new_color, img, fpos, frames,
                   log, hex_in, hex_out>>

\* Line 211: the loop goes on to the next input, or the script ends.
NextInput ==
    /\ pc = "returned"
    /\ IF idx < Len(args.input)
       THEN idx' = idx + 1 /\ pc' = "choose" /\ UNCHANGED exit_code
       ELSE pc' = "exited" /\ exit_code' = 0 /\ UNCHANGED idx
    /\ UNCHANGED <<args, files, dirs, old_color, new_color, output_gif, call, img,
                   fpos, frames, log, hex_in, hex_out>>

\* ---------------------------------------------------------------- the runs

\* Paths of the runs: a.gif, d/b (an input without extension), o, o.gif, the
\* directories d (there) and n (not there), and --output values with a
\* separator in them.
PathA == <<"a">> \o Gif
PathDB == <<"d", "/", "b">>
PathO == <<"o">>
DirD == <<"d">>
DirN == <<"n">>
SubOut == <<"s", "/">> \o OutGif
BackOut == <<"s", "\\">> \o OutGif

InputPaths == {PathA, PathDB}
InputLists == UNION {[1..n -> InputPaths] : n \in 1..MaxInputs}
OutputNames == {<<>>, PathA, PathO, SubOut, BackOut}
OutputDirs == {<<>>, DirD, DirN}

\* Files that may be there before the run, besides or among the inputs; d/b
\* is always there.
Candidates == {PathA, PathO, OutGif}

\* --old-color and --new-color: "1 2 3" and "#A"; "1 2" and "fff"; "1 " and
\* " "; "#abc" and "1 x 3".
ColorArgs ==
    { <<<<"1", " ", "2", " ", "3">>, <<"#", "A">>>>,
      <<<<"1", " ", "2">>, <<"f", "f", "f">>>>,
      <<<<"1", " ">>, <<" ">>>>,
      <<<<"#", "a", "b", "c">>, <<"1", " ", "x", " ", "3">>>> }

\* The animation of an input file, and the one of any other file.
InputAnim == [loop |-> 0, frames |-> <<[rows |-> <<<<<<1, 2, 3, 77>>>>>>, dur |-> 40]>>]
OtherAnim == [loop |-> 0, frames |-> <<[rows |-> <<<<<<9, 9, 9, 77>>>>>>, dur |-> 40]>>]

\* The state when the script starts, after parse_args (line 187), with the
\* defaults of --tolerance and --duration.
InitMain ==
    /\ \E input \in InputLists, output \in OutputNames, output_dir \in OutputDirs,
          colors \in ColorArgs, force \in BOOLEAN :
          args = [input |-> input, output |-> output, output_dir |-> output_dir,
                  old_color |-> colors[1], new_color |-> colors[2],
                  tolerance |-> 30, duration |-> 100, force |-> force]
    /\ \E there \in SUBSET Candidates :
          files = [q \in {Abs(f) : f \in there \cup {PathDB}} |->
                      IF \E f \in InputPaths : Abs(f) = q THEN InputAnim
                      ELSE OtherAnim]
    /\ dirs = {<<"/">>, Cwd, Abs(DirD)}
    /\ pc = "check"
    /\ idx = 1
    /\ old_color = <<>> /\ new_color = <<>> /\ output_gif = <<>>
    /\ call = NoCall /\ img = <<>> /\ fpos = 0 /\ frames = <<>>
    /\ log = <<>> /\ exit_code = -1
    /\ hex_in = <<>> /\ hex_out = [ok |-> FALSE, val |-> <<>>]

NextMain ==
    \/ CheckInput
    \/ ParseColors
    \/ ChooseOutput
    \/ Open
    \/ ProcessFrame
    \/ Save
    \/ NextInput

Spec == InitMain /\ [][NextMain]_vars

\* ------------------------------------------------------------- properties

\* The recolouring call has returned: its frames were saved.
Returned == pc = "returned"

\* The pixel positions of the opened animation.
Positions ==
    {<<i, r, c>> \in (1..Len(img)) \X (1..2) \X (1..2) :
        r <= Len(img[i].rows) /\ c <= Len(img[i].rows[r])}

InPixel(pos) == img[pos[1]].rows[pos[2]][pos[3]]
OutPixel(pos) == frames[pos[1]][pos[2]][pos[3]]

\* The animation stored at the path the call saved to.
Saved == files[Abs(SavePath(call.output_path))]
SavedPixel(pos) == Saved.frames[pos[1]].rows[pos[2]][pos[3]]

\* Every channel of px within tol of the channel of colour t, as integers.
Within(px, t, tol) == \A c \in 1..3 : t[c] - tol <= px[c] /\ px[c] <= t[c] + tol

\* Signed distance of px from colour t in channel c, as a natural number.
Dist(px, t, c) == IF px[c] >= t[c] THEN px[c] - t[c] ELSE t[c] - px[c]

Replaced(t) == <<t[1], t[2], t[3], Opaque>>

\* C1: a pixel is replaced if and only if each of R, G, B is within the
\* tolerance of the target's channel, the differences taken as signed
\* integers: at distance tolerance in all three channels it is replaced, at
\* distance tolerance + 1 in one channel it is not.
C1_ToleranceMask ==
    Returned =>
        \A pos \in Positions :
            LET p == InPixel(pos)
                q == OutPixel(pos)
                t == call.target_color
                tol == call.tolerance
            IN  /\ Within(p, t, tol) => q = Replaced(call.replacement_color)
                /\ q # p => Within(p, t, tol)
                /\ (\A c \in 1..3 : Dist(p, t, c) = tol)
                       => q = Replaced(call.replacement_color)
                /\ (\E c \in 1..3 : Dist(p, t, c) = tol + 1) => q = p

\* A pixel at distance exactly tolerance = 1 in every channel, below the
\* target in one and above it in the others, was replaced.
C1_Witness ==
    /\ Returned
    /\ call.tolerance = 1
    /\ call.target_color = <<1, 1, 1>>
    /\ img[1].rows[1][1] = <<2, 0, 2, 77>>
    /\ frames[1][1][1] = Replaced(call.replacement_color)
    /\ frames[1][1][1] # img[1].rows[1][1]

SameRGB(p, q) == p[1] = q[1] /\ p[2] = q[2] /\ p[3] = q[3]

C9_FramesPreserved ==
    Returned =>
        /\ Len(frames) = Len(img)
        /\ Len(Saved.frames) = Len(img)
        /\ \A i \in 1..Len(img) :
              /\ frames[i] = ReplaceFrame(img[i].rows, call.target_color,
                                          call.replacement_color, call.tolerance)
              /\ Len(frames[i]) = Len(img[i].rows)
              /\ \A r \in 1..Len(img[i].rows) :
                    Len(frames[i][r]) = Len(img[i].rows[r])
              /\ Saved.frames[i].rows = frames[i]
              /\ Saved.frames[i].dur = call.duration

\* Two different source frames with different timings came out in their
\* order, both with the duration of the call.
C9_Witness ==
    /\ Returned
    /\ Len(img) = 2
    /\ img[1].dur # img[2].dur
    /\ img[1].dur # call.duration
    /\ Len(img[1].rows) = 2
    /\ Len(frames) = 2
    /\ frames[1] # frames[2]
    /\ frames[1] # img[1].rows
    /\ Saved.frames[2].dur = call.duration

\* The string after one leading '#', if there is one.
HexBody(s) == IF s # <<>> /\ Head(s) = "#" THEN Tail(s) ELSE s

\* A string of hexadecimal digits, with or without a leading '#'.
IsHexString(s) == \A i \in 1..Len(HexBody(s)) : IsHexDigit(HexBody(s)[i])

\* Character i of body repeated to six characters.
SixChar(body, i) == body[((i - 1) % Len(body)) + 1]

Destination ==
    LET input_file == args.input[idx]
    IN  IF args.output = <<>> /\ args.output_dir = <<>>
            THEN SplitExt(input_file).base \o ProcessedGif
        ELSE IF args.output = <<>>
            THEN Join(args.output_dir,
                      Replace(Basename(input_file), Gif, ProcessedGif))
        ELSE IF args.output_dir = <<>> THEN Join(Cwd, args.output)
        ELSE Join(args.output_dir, args.output)

\* The path base_k ext.
Numbered(base, k, ext) == base \o <<"_">> \o IntToStr(k) \o ext

\* p is base_k ext for the smallest k >= 1 such that base_k ext does not
\* exist.
IsFirstFree(p, base, ext) ==
    \E k \in 1..(Cardinality(DOMAIN files) + 1) :
        /\ Abs(p) = Abs(Numbered(base, k, ext))
        /\ ~Exists(files, dirs, Numbered(base, k, ext))
        /\ \A j \in 1..(k - 1) : Exists(files, dirs, Numbered(base, j, ext))

\* An output path has been chosen for the current input and nothing has
\* been done with it yet.
Chosen == pc = "call"

\* Both colour arguments were parsed to three integers.
ColorsAccepted == Len(old_color) = 3 /\ Len(new_color) = 3

\* Both colour arguments parse to three integers.
ColorArgsFine ==
    \A s \in {args.old_color, args.new_color} :
        ParseColor(s).ok /\ Len(ParseColor(s).val) = 3

\* C3 as stated: without --force, a destination that does not exist is used
\* unchanged, and for one that exists the chosen path is base_k.ext with the
\* smallest k >= 1 such that base_k.ext does not exist; the chosen path never
\* names an existing file.
C3_Original ==
    (Chosen /\ ~args.force /\ ColorsAccepted) =>
        /\ ~Exists(files, dirs, output_gif)
        /\ IF ~Exists(files, dirs, Destination)
           THEN Abs(output_gif) = Abs(Destination)
           ELSE IsFirstFree(output_gif, SplitExt(Destination).base,
                            SplitExt(Destination).ext)

\* C3 amended: as C3, for a destination that has an extension; a destination
\* without extension that exists is given the extension .gif first: the
\* chosen path is base.gif if that does not exist, and else base_k.gif with
\* the smallest k >= 1 such that base_k.gif does not exist.
C3_UniqueName ==
    (Chosen /\ ~args.force) =>
        /\ ~Exists(files, dirs, output_gif)
        /\ IF ~Exists(files, dirs, Destination)
               THEN Abs(output_gif) = Abs(Destination)
           ELSE IF SplitExt(Destination).ext # <<>>
               THEN IsFirstFree(output_gif, SplitExt(Destination).base,
                                SplitExt(Destination).ext)
           ELSE IF ~Exists(files, dirs, Destination \o Gif)
               THEN Abs(output_gif) = Abs(Destination \o Gif)
           ELSE IsFirstFree(output_gif, Destination, Gif)

\* With a.gif and a_1.gif there (the output of the first input), --output
\* a.gif gave the second input the path a_2.gif.
C3_Witness ==
    /\ Chosen
    /\ ~args.force
    /\ ColorsAccepted
    /\ args.output = PathA
    /\ args.output_dir = <<>>
    /\ Exists(files, dirs, PathA)
    /\ Exists(files, dirs, <<"a", "_", "1">> \o Gif)
    /\ Abs(output_gif) = Abs(<<"a", "_", "2">> \o Gif)

\* The script is past its checks: it is choosing outputs or recolouring, or
\* it has done something to the file system, or it has ended with status 0.
Processing ==
    \/ pc \in {"choose", "call", "frames", "returned", "crashed"}
    \/ log # <<>>
    \/ exit_code = 0

\* The run was refused: nothing was done, and it ends with status 1.
Refused ==
    /\ ~Processing
    /\ pc \in {"check", "colors", "exited"}
    /\ pc = "exited" => exit_code = 1

MissingInput == \E i \in 1..Len(args.input) : ~IsFile(files, args.input[i])

ParseFails == ~ParseColor(args.old_color).ok \/ ~ParseColor(args.new_color).ok

\* C4: when an input is no existing file, or a colour does not parse, the
\* run ends with status 1 before any input is recoloured: no output file and
\* no directory is made, whatever valid inputs come first.
C4_ValidatedFirst == ~Refused => ~(MissingInput \/ ParseFails)

\* A run with a valid first input and a missing second one ended with
\* status 1 and nothing written.
C4_Witness ==
    /\ pc = "exited"
    /\ exit_code = 1
    /\ Len(args.input) = 2
    /\ IsFile(files, args.input[1])
    /\ ~IsFile(files, args.input[2])
    /\ ParseColor(args.old_color).ok /\ ParseColor(args.new_color).ok
    /\ log = <<>>

\* C5: a run whose --output has "/" or "\" in it is rejected, with status 1
\* and nothing recoloured or written, with --output-dir or without.
C5_OutputWithSeparator ==
    ((HasChar(args.output, "/") \/ HasChar(args.output, "\\")) /\ ColorArgsFine) =>
        /\ pc \notin {"call", "frames", "returned", "crashed"}
        /\ log = <<>>
        /\ pc = "exited" => exit_code = 1

\* Splitting s on whitespace gives exactly 3 tokens, each an integer.
ThreeIntegers(s) ==
    /\ Len(Split(s)) = 3
    /\ \A k \in 1..Len(Split(s)) : IntBase10(Split(s)[k]).ok

\* C6: a colour with a space in it that does not split into exactly 3
\* integers fails to parse: the run ends with status 1 and nothing is
\* processed; an accepted colour is a 3-tuple.
C6_DecimalTriple ==
    /\ \A s \in {args.old_color, args.new_color} :
          (HasChar(s, " ") /\ ~ThreeIntegers(s)) => Refused
    /\ pc \in {"choose", "call", "frames", "returned"} =>
          Len(old_color) = 3 /\ Len(new_color) = 3

\* C10: without --force, no path a result is written to existed just before
\* the write, so no earlier file and no earlier output of the run is
\* overwritten and the inputs of a run end up in different files.
C10_NoOverwrite ==
    (~args.force /\ ColorsAccepted) =>
        /\ \A k \in 1..Len(log) : log[k].op = "write" => ~log[k].existed
        /\ \A k \in 1..Len(log) : \A m \in 1..Len(log) :
              (k # m /\ log[k].op = "write" /\ log[m].op = "write")
                  => log[k].path # log[m].path

====
